---- MODULE Spec2Model ----
(***************************************************************************)
(* A model of mace/tools/cuda_tools.py: the CUDA rewrite of a MACE model   *)
(* (optimize_cuda_mace), the layer replacers (linear_matmul,               *)
(* linear_to_cuda), the two rewritten interaction forwards, and the        *)
(* command line driver main (load, rewrite, save, benchmark).              *)
(*                                                                         *)
(* Strings that the code takes apart (paths, class names) are sequences:   *)
(* a path is a sequence of one-character strings, a class name a sequence  *)
(* of its CamelCase words.  Tensors are records of a symbolic value and a  *)
(* shape; symbolic values are tuples <<operation, operands...>>.           *)
(***************************************************************************)
EXTENDS Integers, Sequences, FiniteSets, TLC

VARIABLES pc, args, cwd, fs, artifact, heap, model, model_opt, i, raisedAt,
          timed, inp, blk, ret, calls, layer, module, x, y

vars == <<pc, args, cwd, fs, artifact, heap, model, model_opt, i, raisedAt,
          timed, inp, blk, ret, calls, layer, module, x, y>>

mainVars == <<args, cwd, fs, artifact, heap, model, model_opt, i, raisedAt, timed>>
forwardVars == <<inp, blk, ret, calls>>
linearVars == <<layer, module, x, y>>

(* ---------------------------------------------------------------- bounds *)
MaxLayers == 2
MaxChan == 2
MaxBatch == 2
MaxNodes == 2
MaxEdges == 2

None == [kind |-> "None"]

(* ------------------------------------------------------- sequences, paths *)
RECURSIVE Split(_, _)
\* str.split(sep): every separator cuts, empty pieces are kept
Split(s, sep) ==
    IF \A k \in 1..Len(s) : s[k] # sep
    THEN <<s>>
    ELSE LET k == CHOOSE j \in 1..Len(s) :
                     s[j] = sep /\ \A h \in 1..(j - 1) : s[h] # sep
         IN  <<SubSeq(s, 1, k - 1)>> \o Split(SubSeq(s, k + 1, Len(s)), sep)

RECURSIVE Join(_, _)
\* sep.join(parts)
Join(parts, sep) ==
    IF Len(parts) = 0 THEN <<>>
    ELSE IF Len(parts) = 1 THEN parts[1]
    ELSE parts[1] \o <<sep>> \o Join(Tail(parts), sep)

\* parts[:-1]
AllButLast(s) == IF Len(s) = 0 THEN <<>> ELSE SubSeq(s, 1, Len(s) - 1)

\* main: model_dir = "/".join(args.model.split("/")[:-1]), then
\* model_opt_path = model_dir + "/" + args.output
ModelOptPath(p, output) == Join(AllButLast(Split(p, "/")), "/") \o <<"/">> \o output

RECURSIVE Names(_)
\* the names of a split path that name something: "" and "." do not
Names(parts) ==
    IF Len(parts) = 0 THEN <<>>
    ELSE IF parts[1] = <<>> \/ parts[1] = <<".">> THEN Names(Tail(parts))
    ELSE <<parts[1]>> \o Names(Tail(parts))

\* the file a path names when opened from working directory d
Resolve(p, d) ==
    IF Len(p) > 0 /\ p[1] = "/" THEN Names(Split(p, "/"))
    ELSE d \o Names(Split(p, "/"))

(* ------------------------------------------------------- the loaded model *)
InteractionWords == <<"Interaction", "Block">>
StandardClass == <<"Real", "Agnostic">> \o InteractionWords
ResidualClass == <<"Real", "Agnostic", "Residual">> \o InteractionWords
NonlinearClass == <<"Agnostic", "Nonlinear">> \o InteractionWords
ElementDependentClass == <<"Residual", "Element", "Dependent">> \o InteractionWords
BlockClasses == {StandardClass, ResidualClass, NonlinearClass, ElementDependentClass}

\* "Residual" in name
Contains(name, word) == \E k \in 1..Len(name) : name[k] = word

E3Linear(cin, cout, w) ==
    [kind |-> "e3nn.Linear", irreps_in |-> cin, irreps_out |-> cout,
     instructions |-> "instructions", weight |-> w]

\* where a loaded layer breaks a replacer's assumptions
Faults == {"none", "linear_up", "contraction", "product_linear"}

InteractionBlock(cls, fault, k) ==
    [class |-> cls,
     linear_up |-> E3Linear(2, 2, IF fault = "linear_up"
                                  THEN <<k, k + 1, k + 2>>
                                  ELSE <<k, k + 1, k + 2, k + 3>>),
     linear |-> E3Linear(1, 1, <<k + 1>>),
     tp |-> [kind |-> "conv_tp"],
     forward |-> [kind |-> "forward", fn |-> "forward"],
     skip_tp |-> [kind |-> "skip_tp", layer |-> k],
     conv_tp_weights |-> [kind |-> "conv_tp_weights", layer |-> k, paths |-> 2],
     avg_num_neighbors |-> 10 + k]

ProductBlock(fault, k) ==
    [symmetric_contractions |->
        [kind |-> "SymmetricContraction", irreps_in |-> "irreps_in",
         irreps_out |-> "irreps_out",
         contractions |-> << [weights_max |-> "w3",
                              weights |-> IF fault = "contraction"
                                          THEN <<"w2">> ELSE <<"w2", "w1">>] >>],
     linear |-> E3Linear(1, 2, IF fault = "product_linear" THEN <<k>> ELSE <<k, k + 1>>)]

\* the fault, if any, sits in one layer: the rewrite stops at the first one
FaultPlacements(n) ==
    { f \in [1..n -> Faults] : Cardinality({k \in 1..n : f[k] # "none"}) <= 1 }

Models ==
    UNION {
      { [num_interactions |-> n,
         spherical_harmonics |-> [kind |-> "SphericalHarmonics", backend |-> "e3nn"],
         requires_grad |-> TRUE,
         interactions |-> [k \in 1..n |-> InteractionBlock(cls[k], flt[k], k)],
         products |-> [k \in 1..n |-> ProductBlock(flt[k], k)]]
        : cls \in [1..n -> BlockClasses], flt \in FaultPlacements(n) }
      : n \in 1..MaxLayers }

(* ------------------------------------------------------ layer replacers *)
Raise(what) == [kind |-> "raise", what |-> what]
IsRaise(v) == v.kind = "raise"

\* a reshape that fills the matrix column by column
ReshapeColumnMajor(w, r, c) ==
    IF Len(w) # r * c THEN Raise("shape is invalid for input size")
    ELSE [kind |-> "tensor",
          rows |-> [a \in 1..r |-> [b \in 1..c |-> w[(b - 1) * r + a]]]]

\* a reshape that truncates or zero-pads instead of raising
ReshapePadded(w, r, c) ==
    [kind |-> "tensor",
     rows |-> [a \in 1..r |-> [b \in 1..c |->
                 IF (a - 1) * c + b <= Len(w) THEN w[(a - 1) * c + b] ELSE 0]]]

\* Tensor.reshape(r, c): row-major, and an error unless the element counts agree
Reshape(w, r, c) ==
    IF Len(w) # r * c THEN Raise("shape is invalid for input size")
    ELSE [kind |-> "tensor",
          rows |-> [a \in 1..r |-> [b \in 1..c |-> w[(a - 1) * c + b]]]]

\* the entry v / root**0.5, kept exact
OverSqrt(v, root) == [num |-> v, root |-> root]

\* linear_matmul.__init__
linear_matmul(linear_e3nn) ==
    LET num_channels_in == linear_e3nn.irreps_in
        num_channels_out == linear_e3nn.irreps_out
        r == Reshape(linear_e3nn.weight, num_channels_in, num_channels_out)
    IN  IF IsRaise(r) THEN r
        ELSE [kind |-> "linear_matmul",
              weights |-> [a \in 1..num_channels_in |->
                             [b \in 1..num_channels_out |->
                                OverSqrt(r.rows[a][b], num_channels_in)]]]

RECURSIVE Dot(_, _, _, _)
\* sum over a in 1..n of row[a] * weights[a][b].num
Dot(row, weights, b, n) ==
    IF n = 0 THEN 0 ELSE Dot(row, weights, b, n - 1) + row[n] * weights[n][b].num

\* linear_matmul.forward on a concrete input: torch.matmul(x, self.weights)
linear_matmul_forward(self, xs) ==
    LET cin == Len(self.weights)
        cout == Len(self.weights[1])
    IN  [r \in 1..Len(xs) |->
           [b \in 1..cout |->
              OverSqrt(Dot(xs[r], self.weights, b, cin), self.weights[1][b].root)]]

\* the post-message linear left as it was
linear_to_cuda_kept(linear) == linear

\* linear_to_cuda
linear_to_cuda(linear) ==
    [kind |-> "mace_ops.Linear", irreps_in |-> linear.irreps_in,
     irreps_out |-> linear.irreps_out, instructions |-> linear.instructions,
     weight |-> linear.weight]

\* every block bound to the standard forward
ForwardForAlwaysStandard(class) == "invariant_interaction_forward"

\* optimize_cuda_mace, the choice of the forward variant
ForwardFor(class) ==
    IF Contains(class, "Residual")
    THEN "invariant_residual_interaction_forward"
    ELSE "invariant_interaction_forward"

\* optimize_cuda_mace, all_weights of one contraction: weights_max, weights[0], weights[1]
ContractionWeights(c) ==
    IF Len(c.weights) < 2 THEN Raise("list index out of range")
    ELSE [kind |-> "weights", w3 |-> c.weights_max, w2 |-> c.weights[1], w1 |-> c.weights[2]]

AllWeights(symm_contract) ==
    LET ws == [j \in 1..Len(symm_contract.contractions) |->
                 ContractionWeights(symm_contract.contractions[j])]
    IN  IF \E j \in 1..Len(ws) : IsRaise(ws[j])
        THEN Raise("list index out of range")
        ELSE [kind |-> "all_weights", by_contraction |-> ws]

SymmetricContractionWrapper(symmetric_contractions) ==
    [kind |-> "SymmetricContractionWrapper",
     symmetric_contractions |-> symmetric_contractions]

CUDAContraction(symm_contract, all_weights) ==
    [kind |-> "CUDAContraction", coupling_irreps |-> symm_contract.irreps_in,
     irreps_out |-> symm_contract.irreps_out, all_weights |-> all_weights,
     nthreadX |-> 32, nthreadY |-> 4, nthreadZ |-> 1]

\* optimize_cuda_mace, one turn of the loop over the layers, statement by
\* statement: what was assigned before a raise stays assigned
LayerBody(m, k) ==
    LET b0 == m.interactions[k]
        up == linear_matmul(b0.linear_up)
    IN  IF IsRaise(up) THEN [model |-> m, raised |-> TRUE]
        ELSE
        LET b1 == [b0 EXCEPT !.linear_up = up,
                             !.linear = linear_to_cuda(b0.linear),
                             !.tp = [kind |-> "InvariantMessagePassingTP"],
                             !.forward = [kind |-> "partial",
                                          fn |-> ForwardFor(b0.class)]]
            m1 == [m EXCEPT !.interactions[k] = b1]
            symm_contract == m1.products[k].symmetric_contractions
            all_weights == AllWeights(symm_contract)
        IN  IF IsRaise(all_weights) THEN [model |-> m1, raised |-> TRUE]
            ELSE
            LET m2 == [m1 EXCEPT !.products[k].symmetric_contractions =
                          SymmetricContractionWrapper(
                              CUDAContraction(symm_contract, all_weights))]
                pl == linear_matmul(m2.products[k].linear)
            IN  IF IsRaise(pl) THEN [model |-> m2, raised |-> TRUE]
                ELSE [model |-> [m2 EXCEPT !.products[k].linear = pl],
                      raised |-> FALSE]

\* optimize_cuda_mace before the loop: parameters frozen, spherical harmonics swapped
Prologue(m) ==
    [m EXCEPT !.requires_grad = FALSE,
              !.spherical_harmonics = [kind |-> "SphericalHarmonics", backend |-> "opt"]]

RECURSIVE Layers(_, _, _)
\* the loop from layer k on, stopping at the first raise
Layers(m, k, n) ==
    IF k > n THEN [model |-> m, raised |-> FALSE]
    ELSE LET r == LayerBody(m, k)
         IN  IF r.raised THEN r ELSE Layers(r.model, k + 1, n)

\* optimize_cuda_mace as one call
optimize_cuda_mace(m) == Layers(Prologue(m), 1, m.num_interactions)

(* ------------------------------------------------ the rewritten forwards *)
Tensor(v, shape) == [kind |-> "tensor", v |-> v, shape |-> shape]

\* the index row passed on with the dtype it came with
IntCastKept(row) == row

\* Tensor.int(): the same entries as 32-bit integers (a node number fits 32 bits)
IntCast(row) ==
    [kind |-> "tensor", dtype |-> "int32",
     data |-> [k \in 1..Len(row.data) |-> row.data[k]]]

\* edge_index[r]
Row(edge_index, r) ==
    [kind |-> "tensor", dtype |-> edge_index.dtype, data |-> edge_index.rows[r + 1]]

\* self.skip_tp(node_feats, node_attrs)
CallSkipTp(skip_tp, node_feats, node_attrs) ==
    Tensor(<<"skip_tp", skip_tp, node_feats.v, node_attrs.v>>, node_feats.shape)

\* self.linear_up(node_feats): linear_matmul.forward on a symbolic input
CallLinearUp(linear_up, node_feats) ==
    Tensor(<<"matmul", node_feats.v, linear_up.weights>>,
           <<node_feats.shape[1], Len(linear_up.weights[1])>>)

\* self.conv_tp_weights(edge_feats): paths * channels weights for each edge
CallConvTpWeights(conv_tp_weights, edge_feats, channels) ==
    Tensor(<<"conv_tp_weights", conv_tp_weights, edge_feats.v>>,
           <<edge_feats.shape[1], conv_tp_weights.paths * channels>>)

\* t.view(d0, -1, d2) of a two-dimensional tensor
View3(t, d0, d2) ==
    LET numel == t.shape[1] * t.shape[2]
    IN  IF d0 * d2 = 0 \/ numel % (d0 * d2) # 0
        THEN Raise("shape is invalid for input size")
        ELSE Tensor(t.v, <<d0, numel \div (d0 * d2), d2>>)

\* self.tp.calculate_first_occurences(receiver, num_nodes, empty int tensor)
CalculateFirstOccurences(tp, receiver, num_nodes) ==
    Tensor(<<"first_occurences", receiver, num_nodes>>, <<num_nodes>>)

\* self.tp.forward(node_feats, edge_attrs, tp_weights, sender, receiver, first_occurences)
TpForward(tp, node_feats, edge_attrs, tp_weights, sender, receiver, first_occurences) ==
    Tensor(<<"tp.forward", node_feats.v, edge_attrs.v, tp_weights.v, sender, receiver,
             first_occurences.v>>,
           <<node_feats.shape[1], node_feats.shape[2], edge_attrs.shape[2]>>)

\* self.linear(message)
CallLinear(linear, message) == Tensor(<<"linear", linear, message.v>>, message.shape)

\* message / self.avg_num_neighbors
Div(message, avg_num_neighbors) ==
    Tensor(<<"div", message.v, avg_num_neighbors>>, message.shape)

\* what both forwards do from the uplift on; the result and the calls made, in order
MessagePass(self, node_feats, edge_attrs, edge_feats, sender, receiver, num_nodes) ==
    LET up == CallLinearUp(self.linear_up, node_feats)
        tp_weights == CallConvTpWeights(self.conv_tp_weights, edge_feats,
                                        up.shape[Len(up.shape)])
        first_occurences == CalculateFirstOccurences(self.tp, receiver, num_nodes)
        viewed == View3(tp_weights, tp_weights.shape[1], up.shape[Len(up.shape)])
        message == TpForward(self.tp, up, edge_attrs, viewed, sender, receiver,
                             first_occurences)
    IN  [message |-> Div(CallLinear(self.linear, message), self.avg_num_neighbors),
         calls |-> << <<"linear_up", node_feats>>,
                      <<"conv_tp_weights", edge_feats>>,
                      <<"tp.calculate_first_occurences", receiver, num_nodes>>,
                      <<"tp.forward", up, edge_attrs, viewed, sender, receiver,
                        first_occurences>>,
                      <<"linear", message>> >>]

invariant_residual_interaction_forward(self, node_attrs, node_feats, edge_attrs, edge_feats, edge_index) ==
    LET sender == IntCast(Row(edge_index, 0))
        receiver == IntCast(Row(edge_index, 1))
        num_nodes == node_feats.shape[1]
        sc == CallSkipTp(self.skip_tp, node_feats, node_attrs)
        mp == MessagePass(self, node_feats, edge_attrs, edge_feats, sender, receiver,
                          num_nodes)
    IN  [ret |-> <<mp.message, sc>>,
         calls |-> << <<"skip_tp", node_feats, node_attrs>> >> \o mp.calls]

invariant_interaction_forward(self, node_attrs, node_feats, edge_attrs, edge_feats, edge_index) ==
    LET sender == IntCast(Row(edge_index, 0))
        receiver == IntCast(Row(edge_index, 1))
        num_nodes == node_feats.shape[1]
        mp == MessagePass(self, node_feats, edge_attrs, edge_feats, sender, receiver,
                          num_nodes)
    IN  [ret |-> <<mp.message, None>>, calls |-> mp.calls]

\* block.forward(...): the partial that optimize_cuda_mace bound, applied to the block
CallForward(self, node_attrs, node_feats, edge_attrs, edge_feats, edge_index) ==
    IF self.forward.fn = "invariant_residual_interaction_forward"
    THEN invariant_residual_interaction_forward(self, node_attrs, node_feats,
                                                edge_attrs, edge_feats, edge_index)
    ELSE invariant_interaction_forward(self, node_attrs, node_feats,
                                       edge_attrs, edge_feats, edge_index)

\* a batch: n nodes, and an edge index of 64-bit node numbers
Batches ==
    UNION { UNION { { [node_attrs |-> Tensor(<<"node_attrs">>, <<n, 1>>),
                       node_feats |-> Tensor(<<"node_feats">>, <<n, 2>>),
                       edge_attrs |-> Tensor(<<"edge_attrs">>, <<e, 16>>),
                       edge_feats |-> Tensor(<<"edge_feats">>, <<e, 8>>),
                       edge_index |-> [kind |-> "tensor", dtype |-> "int64",
                                       rows |-> <<snd, rcv>>]]
                      : snd \in [1..e -> 0..(n - 1)], rcv \in [1..e -> 0..(n - 1)] }
                    : e \in 1..MaxEdges }
            : n \in 1..MaxNodes }

(* ------------------------------------------------------------------ main *)
\* --model: a bare file name, relative paths, absolute paths
ModelPaths == { <<"m">>, <<"d", "/", "m">>, <<".", "/", "m">>,
                <<"/", "m">>, <<"/", "d", "/", "m">> }
\* --output: a file name
Outputs == { <<"o">>, <<"m">> }
\* the directory main is started in: the root, or a directory w
WorkingDirs == { <<>>, << <<"w">> >> }

NoCall == [i |-> 0]
NoLayer == [kind |-> "none"]

InitMain ==
    /\ pc = "start"
    /\ args \in [model : ModelPaths, output : Outputs, benchmark : BOOLEAN]
    /\ cwd \in WorkingDirs
    /\ artifact \in Models
    /\ fs = [f \in {Resolve(args.model, cwd)} |-> artifact]
    /\ heap = <<>>
    /\ model = 0
    /\ model_opt = 0
    /\ i = 0
    /\ raisedAt = 0
    /\ timed = <<>>
    /\ inp = NoCall /\ blk = 0 /\ ret = <<>> /\ calls = <<>>
    /\ layer = NoLayer /\ module = NoLayer /\ x = <<>> /\ y = <<>>

\* torch.load: a new object holding what the file holds
TorchLoad(h, content) == h \o <<content>>

\* torch.save: the file at that path now holds the object's content
TorchSave(files, where, content) ==
    [f \in DOMAIN files \cup {where} |-> IF f = where THEN content ELSE files[f]]

\* main, line 270: model = torch.load(args.model)
Load ==
    /\ pc = "start"
    /\ Resolve(args.model, cwd) \in DOMAIN fs
    /\ heap' = TorchLoad(heap, fs[Resolve(args.model, cwd)])
    /\ model' = Len(heap')
    /\ pc' = "optimize"
    /\ UNCHANGED <<args, cwd, fs, artifact, model_opt, i, raisedAt, timed>>
    /\ UNCHANGED <<forwardVars, linearVars>>

\* optimize_cuda_mace, lines 60-72
OptimizeBegin ==
    /\ pc = "optimize"
    /\ heap' = [heap EXCEPT ![model] = Prologue(@)]
    /\ i' = 0
    /\ pc' = "layers"
    /\ UNCHANGED <<args, cwd, fs, artifact, model, model_opt, raisedAt, timed>>
    /\ UNCHANGED <<forwardVars, linearVars>>

\* an exception of the rewrite caught, and the model saved all the same
AfterLayerSavesAnyway(raised) == IF raised THEN "save" ELSE "layers"

\* where main goes after a turn of the loop: an exception leaves main
AfterLayer(raised) == IF raised THEN "raised" ELSE "layers"

\* optimize_cuda_mace, lines 73-113: one turn of the loop
OptimizeLayer ==
    /\ pc = "layers"
    /\ i < heap[model].num_interactions
    /\ LET r == LayerBody(heap[model], i + 1)
       IN  /\ heap' = [heap EXCEPT ![model] = r.model]
           /\ raisedAt' = IF r.raised THEN i + 1 ELSE raisedAt
           /\ i' = IF r.raised THEN i ELSE i + 1
           /\ pc' = AfterLayer(r.raised)
    /\ UNCHANGED <<args, cwd, fs, artifact, model, model_opt, timed>>
    /\ UNCHANGED <<forwardVars, linearVars>>

\* optimize_cuda_mace, line 114, and main, line 271: model_opt = the returned model
OptimizeReturn ==
    /\ pc = "layers"
    /\ i >= heap[model].num_interactions
    /\ model_opt' = model
    /\ pc' = "save"
    /\ UNCHANGED <<args, cwd, fs, artifact, heap, model, i, raisedAt, timed>>
    /\ UNCHANGED <<forwardVars, linearVars>>

\* main, lines 273-275
Save ==
    /\ pc = "save"
    /\ fs' = TorchSave(fs, Resolve(ModelOptPath(args.model, args.output), cwd),
                       heap[model_opt])
    /\ pc' = IF args.benchmark THEN "bench_opt" ELSE "done"
    /\ UNCHANGED <<args, cwd, artifact, heap, model, model_opt, i, raisedAt, timed>>
    /\ UNCHANGED <<forwardVars, linearVars>>

\* benchmark(model, file, name): the model is timed under the label, and not changed
Benchmark(log, m, name) == Append(log, [label |-> name, model |-> m])

\* main, line 278
BenchmarkOpt ==
    /\ pc = "bench_opt"
    /\ timed' = Benchmark(timed, heap[model_opt], "opt")
    /\ pc' = "reload"
    /\ UNCHANGED <<args, cwd, fs, artifact, heap, model, model_opt, i, raisedAt>>
    /\ UNCHANGED <<forwardVars, linearVars>>

\* main, line 279: model = torch.load(args.model)
Reload ==
    /\ pc = "reload"
    /\ Resolve(args.model, cwd) \in DOMAIN fs
    /\ heap' = TorchLoad(heap, fs[Resolve(args.model, cwd)])
    /\ model' = Len(heap')
    /\ pc' = "bench_orig"
    /\ UNCHANGED <<args, cwd, fs, artifact, model_opt, i, raisedAt, timed>>
    /\ UNCHANGED <<forwardVars, linearVars>>

\* main, line 280
BenchmarkOrig ==
    /\ pc = "bench_orig"
    /\ timed' = Benchmark(timed, heap[model], "orig")
    /\ pc' = "done"
    /\ UNCHANGED <<args, cwd, fs, artifact, heap, model, model_opt, i, raisedAt>>
    /\ UNCHANGED <<forwardVars, linearVars>>

(* ------------------------------------- a rewritten model called forward *)
InitForward ==
    /\ pc = "optimize"
    /\ args = [model |-> <<"m">>, output |-> <<"o">>, benchmark |-> FALSE]
    /\ cwd = <<>>
    /\ artifact \in Models
    /\ fs = [f \in {Resolve(args.model, cwd)} |-> artifact]
    /\ heap = TorchLoad(<<>>, artifact)
    /\ model = 1
    /\ model_opt = 0
    /\ i = 0
    /\ raisedAt = 0
    /\ timed = <<>>
    /\ inp = NoCall /\ blk = 0 /\ ret = <<>> /\ calls = <<>>
    /\ layer = NoLayer /\ module = NoLayer /\ x = <<>> /\ y = <<>>

\* model_opt = optimize_cuda_mace(model), as one call
OptimizeCall ==
    /\ pc = "optimize"
    /\ LET r == optimize_cuda_mace(heap[model])
       IN  /\ heap' = [heap EXCEPT ![model] = r.model]
           /\ model_opt' = IF r.raised THEN model_opt ELSE model
           /\ pc' = IF r.raised THEN "raised" ELSE "optimized"
    /\ UNCHANGED <<args, cwd, fs, artifact, model, i, raisedAt, timed>>
    /\ UNCHANGED <<forwardVars, linearVars>>

\* model_opt.interactions[k].forward(...) on a batch
ForwardCall ==
    /\ pc = "optimized"
    /\ \E k \in 1..heap[model_opt].num_interactions, b \in Batches :
          LET r == CallForward(heap[model_opt].interactions[k], b.node_attrs,
                               b.node_feats, b.edge_attrs, b.edge_feats, b.edge_index)
          IN  /\ blk' = k
              /\ inp' = b
              /\ ret' = r.ret
              /\ calls' = r.calls
    /\ pc' = "called"
    /\ UNCHANGED <<mainVars, linearVars>>

\* the caller takes the result; the model can be called again
ForwardReturn ==
    /\ pc = "called"
    /\ pc' = "optimized"
    /\ inp' = NoCall /\ blk' = 0 /\ ret' = <<>> /\ calls' = <<>>
    /\ UNCHANGED <<mainVars, linearVars>>

NextForward ==
    \/ OptimizeCall
    \/ ForwardCall
    \/ ForwardReturn

SpecForward == InitForward /\ [][NextForward]_vars

(* ------------------------------------------- linear_matmul on its own *)
WeightValues == {1, 2}
InputValues == {0, 1}

\* generic linear layers: declared channels, and a flat weight of any length
LinearLayers ==
    UNION { { E3Linear(cin, cout, w) : cin \in 1..MaxChan, cout \in 1..MaxChan,
                                       w \in [1..n -> WeightValues] }
            : n \in 1..(MaxChan * MaxChan) }

InitLinear ==
    /\ pc = "construct"
    /\ layer \in LinearLayers
    /\ module = NoLayer /\ x = <<>> /\ y = <<>>
    /\ args = [model |-> <<"m">>, output |-> <<"o">>, benchmark |-> FALSE]
    /\ cwd = <<>>
    /\ artifact = NoLayer
    /\ fs = <<>>
    /\ heap = <<>>
    /\ model = 0
    /\ model_opt = 0
    /\ i = 0
    /\ raisedAt = 0
    /\ timed = <<>>
    /\ inp = NoCall /\ blk = 0 /\ ret = <<>> /\ calls = <<>>

\* module = linear_matmul(layer)
Construct ==
    /\ pc = "construct"
    /\ LET m == linear_matmul(layer)
       IN  IF IsRaise(m)
           THEN pc' = "raised" /\ UNCHANGED module
           ELSE pc' = "module" /\ module' = m
    /\ UNCHANGED <<layer, x, y, mainVars, forwardVars>>

\* y = module.forward(x), x of shape [batch, c_in]
Forward ==
    /\ pc = "module"
    /\ \E n \in 1..MaxBatch :
         \E xs \in [1..n -> [1..layer.irreps_in -> InputValues]] :
            /\ x' = xs
            /\ y' = linear_matmul_forward(module, xs)
    /\ pc' = "forwarded"
    /\ UNCHANGED <<layer, module, mainVars, forwardVars>>

\* the caller takes y; the module can be called again
Return ==
    /\ pc = "forwarded"
    /\ pc' = "module"
    /\ x' = <<>> /\ y' = <<>>
    /\ UNCHANGED <<layer, module, mainVars, forwardVars>>

NextLinear ==
    \/ Construct
    \/ Forward
    \/ Return

SpecLinear == InitLinear /\ [][NextLinear]_vars

Next ==
    \/ Load
    \/ OptimizeBegin
    \/ OptimizeLayer
    \/ OptimizeReturn
    \/ Save
    \/ BenchmarkOpt
    \/ Reload
    \/ BenchmarkOrig

Spec == InitMain /\ [][Next]_vars

(* ---------------------------------------------------------------- claims *)
Returned == model_opt # 0
NumLayers == artifact.num_interactions
ResidualMarked(class) == class \in {ResidualClass, ElementDependentClass}
InputFile == Resolve(args.model, cwd)
InputOnly == [f \in {InputFile} |-> artifact]

\* layer k of m carries every replacement, and keeps the parts that are not replaced
LayerRewritten(m, k) ==
    LET b == m.interactions[k]
        p == m.products[k]
        b0 == artifact.interactions[k]
    IN  /\ b.linear_up.kind = "linear_matmul"
        /\ b.linear.kind = "mace_ops.Linear"
        /\ b.tp.kind = "InvariantMessagePassingTP"
        /\ b.forward.kind = "partial"
        /\ p.symmetric_contractions.kind = "SymmetricContractionWrapper"
        /\ p.symmetric_contractions.symmetric_contractions.kind = "CUDAContraction"
        /\ p.linear.kind = "linear_matmul"
        /\ b.skip_tp = b0.skip_tp
        /\ b.conv_tp_weights = b0.conv_tp_weights
        /\ b.avg_num_neighbors = b0.avg_num_neighbors

\* C1: whenever some interaction block is of neither the standard nor the
\* residual class, optimize_cuda_mace raises and returns no model.
C1_FailFastOnUnexpectedClass ==
    Returned =>
        \A k \in 1..NumLayers :
            heap[model_opt].interactions[k].class \in {StandardClass, ResidualClass}

\* C2: after the rewrite a block whose class name contains "Residual" is bound
\* to invariant_residual_interaction_forward and its calls return the result of
\* the block's skip_tp as second element; every other block is bound to
\* invariant_interaction_forward and its calls return None as second element.
C2_VariantDispatch ==
    /\ Returned =>
          \A k \in 1..NumLayers :
             LET f == heap[model_opt].interactions[k].forward
             IN  /\ f.kind = "partial"
                 /\ f.fn = IF ResidualMarked(artifact.interactions[k].class)
                           THEN "invariant_residual_interaction_forward"
                           ELSE "invariant_interaction_forward"
    /\ pc = "called" =>
          /\ Len(ret) = 2
          /\ IF ResidualMarked(artifact.interactions[blk].class)
             THEN /\ ret[2].kind = "tensor"
                  /\ ret[2].v[1] = "skip_tp"
                  /\ ret[2].v[2] = artifact.interactions[blk].skip_tp
             ELSE ret[2].kind = "None"

C2_Witness ==
    /\ pc = "called"
    /\ artifact.interactions[blk].class = ElementDependentClass
    /\ ret[2].kind = "tensor"
    /\ \E k \in 1..NumLayers :
          heap[model_opt].interactions[k].forward.fn = "invariant_interaction_forward"

RECURSIVE FlatDot(_, _, _, _, _)
\* sum over a in 1..n of row[a] * w[(a - 1) * cout + b]
FlatDot(row, w, cout, b, n) ==
    IF n = 0 THEN 0
    ELSE FlatDot(row, w, cout, b, n - 1) + row[n] * w[(n - 1) * cout + b]

\* C3: the module built by linear_matmul stores W reshaped row-major to
\* [c_in, c_out] with every entry divided once by sqrt(c_in), and its forward
\* of x is x @ that matrix: entry [r][b] is (sum_a x[r][a] * W[a*c_out + b]) / sqrt(c_in).
C3_LinearRewrite ==
    pc \in {"module", "forwarded"} =>
        LET cin == layer.irreps_in
            cout == layer.irreps_out
        IN  /\ Len(module.weights) = cin
            /\ \A a \in 1..cin :
                  /\ Len(module.weights[a]) = cout
                  /\ \A b \in 1..cout :
                        module.weights[a][b] =
                            [num |-> layer.weight[(a - 1) * cout + b], root |-> cin]
            /\ pc = "forwarded" =>
                  /\ Len(y) = Len(x)
                  /\ \A r \in 1..Len(x) :
                        /\ Len(y[r]) = cout
                        /\ \A b \in 1..cout :
                              y[r][b] = [num |-> FlatDot(x[r], layer.weight, cout, b, cin),
                                         root |-> cin]

C3_Witness ==
    /\ pc = "forwarded"
    /\ layer.irreps_in = 2 /\ layer.irreps_out = 2
    /\ layer.weight = <<1, 2, 1, 1>>
    /\ x = << <<1, 0>>, <<1, 1>> >>
    /\ y = << <<OverSqrt(1, 2), OverSqrt(2, 2)>>, <<OverSqrt(2, 2), OverSqrt(3, 2)>> >>

\* C4: a layer whose weight does not have c_in * c_out elements makes the
\* construction raise: no module is ever built from it and no forward runs.
C4_LinearFailFast ==
    Len(layer.weight) # layer.irreps_in * layer.irreps_out =>
        /\ pc \in {"construct", "raised"}
        /\ module = NoLayer
        /\ y = <<>>

C4_Witness ==
    /\ pc = "raised"
    /\ Len(layer.weight) > layer.irreps_in * layer.irreps_out
    /\ module = NoLayer

\* C5: the optimized model is saved in the directory of the input file, under
\* the output file name.
C5_OutputIsSibling ==
    pc \in {"bench_opt", "reload", "bench_orig", "done"} =>
        LET sibling == AllButLast(InputFile) \o <<args.output>>
        IN  /\ sibling \in DOMAIN fs
            /\ fs[sibling] = heap[model_opt]

\* C6: with the benchmark flag, the model timed as "opt" is the rewritten model
\* and the model timed as "orig" is the original, un-rewritten model.
C6_BenchmarkAgainstOriginal ==
    \A k \in 1..Len(timed) :
        /\ timed[k].label = "opt" =>
              \A j \in 1..NumLayers : LayerRewritten(timed[k].model, j)
        /\ timed[k].label = "orig" => timed[k].model = artifact

\* C7: the output is written only after every layer was rewritten; if the
\* rewrite raises at some layer, main ends with the error, no file is written,
\* nothing is benchmarked and the input file is unchanged.
C7_NoPartialOutput ==
    /\ (fs # InputOnly \/ timed # <<>>) =>
          /\ Returned
          /\ raisedAt = 0
          /\ i = NumLayers
          /\ \A k \in 1..NumLayers : LayerRewritten(heap[model_opt], k)
    /\ raisedAt # 0 =>
          /\ pc = "raised"
          /\ ~Returned
          /\ fs = InputOnly
          /\ timed = <<>>

C7_Witness ==
    /\ pc = "raised"
    /\ raisedAt = 2
    /\ LayerRewritten(heap[model], 1)
    /\ heap[model].interactions[2].tp.kind = "InvariantMessagePassingTP"
    /\ heap[model].products[2].linear.kind = "e3nn.Linear"
    /\ fs = InputOnly

\* C9: when optimize_cuda_mace has returned, the returned model is the object
\* that was passed in, every layer carries all six replacements, and each
\* block's skip_tp, conv_tp_weights and avg_num_neighbors are the original ones.
C9_CompleteInPlaceRewrite ==
    Returned =>
        /\ model_opt = 1
        /\ pc = "save" => model_opt = model
        /\ heap[model_opt].num_interactions = NumLayers
        /\ \A k \in 1..NumLayers : LayerRewritten(heap[model_opt], k)

C9_Witness ==
    /\ pc = "save"
    /\ NumLayers >= 2
    /\ model_opt = model
    /\ heap[model_opt].interactions[NumLayers].linear.kind = "mace_ops.Linear"

CallsTo(name) == { k \in 1..Len(calls) : calls[k][1] = name }

\* C10: in a call of either rewritten forward, sender and receiver are the rows
\* of edge_index as int32; calculate_first_occurences is called once, with the
\* int32 receiver and the node count from before the uplift, and before the one
\* tp.forward call; tp.forward gets the uplifted node features, the edge weights
\* viewed as [num_edges, -1, channels], that sender and receiver and that call's
\* offsets; the message returned is the tp.forward result, passed through the
\* block's linear, divided by the block's stored avg_num_neighbors; the residual
\* self-connection is computed from the node features from before the uplift.
C10_ForwardCallProtocol ==
    pc = "called" =>
        LET b == heap[model_opt].interactions[blk]
            b0 == artifact.interactions[blk]
            sender == [kind |-> "tensor", dtype |-> "int32",
                       data |-> inp.edge_index.rows[1]]
            receiver == [kind |-> "tensor", dtype |-> "int32",
                         data |-> inp.edge_index.rows[2]]
            n == inp.node_feats.shape[1]
            e == inp.edge_feats.shape[1]
            channels == b0.linear_up.irreps_out
            cfo == CallsTo("tp.calculate_first_occurences")
            tpf == CallsTo("tp.forward")
        IN  /\ Cardinality(cfo) = 1
            /\ Cardinality(tpf) = 1
            /\ \A c \in cfo : \A t \in tpf :
                  /\ c < t
                  /\ calls[c][2] = receiver
                  /\ calls[c][3] = n
                  /\ calls[t][2].v = <<"matmul", inp.node_feats.v, b.linear_up.weights>>
                  /\ calls[t][2].shape = <<n, channels>>
                  /\ calls[t][3] = inp.edge_attrs
                  /\ calls[t][4].v = <<"conv_tp_weights", b0.conv_tp_weights,
                                       inp.edge_feats.v>>
                  /\ calls[t][4].shape = <<e, b0.conv_tp_weights.paths, channels>>
                  /\ calls[t][5] = sender
                  /\ calls[t][6] = receiver
                  /\ calls[t][7].v = <<"first_occurences", calls[c][2], calls[c][3]>>
                  /\ ret[1].v[1] = "div"
                  /\ ret[1].v[2][1] = "linear"
                  /\ ret[1].v[2][2] = b.linear
                  /\ ret[1].v[2][3][1] = "tp.forward"
                  /\ ret[1].v[2][3] =
                        <<"tp.forward", calls[t][2].v, calls[t][3].v, calls[t][4].v,
                          calls[t][5], calls[t][6], calls[t][7].v>>
                  /\ ret[1].v[3] = b0.avg_num_neighbors
                  /\ b.avg_num_neighbors = b0.avg_num_neighbors
            /\ b.forward.fn = "invariant_residual_interaction_forward" =>
                  /\ ret[2].v = <<"skip_tp", b0.skip_tp, inp.node_feats.v,
                                  inp.node_attrs.v>>
                  /\ ret[2].shape = inp.node_feats.shape

C10_Witness ==
    /\ pc = "called"
    /\ heap[model_opt].interactions[blk].forward.fn =
          "invariant_residual_interaction_forward"
    /\ inp.node_feats.shape[1] = 2
    /\ inp.edge_index.rows = << <<0, 1>>, <<1, 0>> >>
    /\ Len(calls) = 6
    /\ ret[1].shape = <<2, 2, 16>>

====
